---- MODULE Spec2Model ----
(***************************************************************************)
(* Sea battle (src/game.py): Point, Ship, Board, Player/AI/User and Game.  *)
(* Board.ships is a sequence.  Board.busy and Board.shots, lists that the  *)
(* program only appends to and tests with "in", are bags: how often a      *)
(* point was appended is kept, the order of the appends is not.  The field *)
(* is a function row -> column -> glyph.  Every method is an operator that *)
(* returns the object after the call together with what it raised,         *)
(* returned and printed.                                                   *)
(***************************************************************************)
EXTENDS Integers, Sequences, FiniteSets, Bags, TLC

VARIABLES
    size,       \* Game.size
    phase,      \* where Game is: "pl" / "co" (Game.__init__ building that board),
                \* "play" (Game.loop), "finished" (after a break of Game.loop),
                \* "unit" (no Game: a Ship driven on its own)
    board,      \* try_board's local board
    attempts,   \* try_board's local attempts
    pl,         \* the user's board (self.us.board, self.ai.enemy)
    co,         \* the computer's board (self.ai.board, self.us.enemy)
    num,        \* Game.loop's local num
    winner,     \* which victory message Game.loop printed
    last        \* the last call made and what it raised, returned and printed

vars == <<size, phase, board, attempts, pl, co, num, winner, last>>

-----------------------------------------------------------------------------
(* Program constants *)

Size == 6                             \* Game.__init__(size = 6), Board.__init__(size = 6)
MaxAttempts == 2000                   \* try_board: if attempts > 2000
AIMax == 5                            \* AI.ask: random.randint(0, 5)
lens == <<3, 2, 2, 1, 1, 1, 1>>       \* try_board: lens

None == [none |-> TRUE]               \* Python's None, where a board can be: a record that is no board

(* Glyphs of Board.field *)
EMPTY == "O"
SHIP == "#"                           \* the black square of the source
HITMARK == "X"
MISSMARK == "T"
CONTOUR == "."

-----------------------------------------------------------------------------
(* Bounds of the exploration *)

UserZone == 12   \* the user shoots the first untargeted cell, row by row, or the second
                 \* one while that is among the first UserZone cells of the board
AIZone == 3      \* the same for the draws of the computer
MaxOver == 1     \* the user's tokens run from 0 to size + MaxOver
MaxLen == 3      \* lengths 1 .. MaxLen of a Ship driven on its own
MaxBow == 2      \* bow coordinates -1 .. MaxBow of a Ship driven on its own

(* The outcomes of random.randint explored for the i-th vessel of lens:    *)
(* <<x, y, direction>>.                                                    *)
Draws ==
    << {<<0, 0, 0>>},
       {<<0, 4, 0>>},
       {<<2, 0, 1>>, <<1, 3, 0>>, <<4, 5, 0>>},
       {<<2, 3, 0>>},
       {<<4, 2, 1>>},
       {<<5, 0, 0>>},
       {<<4, 4, 0>>, <<5, 5, 1>>, <<4, 2, 0>>, <<3, 4, 1>>} >>

(* The same for a Game(5) and a Game(7): one fleet each, with one draw     *)
(* that add_ship raises on.                                                *)
Draws5 ==
    << {<<0, 0, 0>>},
       {<<2, 0, 0>>},
       {<<2, 3, 0>>, <<2, 4, 0>>},
       {<<0, 4, 0>>},
       {<<4, 0, 0>>},
       {<<4, 2, 0>>},
       {<<4, 4, 0>>} >>

Draws7 ==
    << {<<0, 0, 0>>},
       {<<0, 4, 0>>},
       {<<2, 0, 1>>, <<1, 3, 0>>},
       {<<2, 3, 0>>},
       {<<4, 2, 1>>},
       {<<5, 0, 0>>},
       {<<6, 6, 0>>} >>

DrawsOf(n) == IF n = 5 THEN Draws5 ELSE IF n = 7 THEN Draws7 ELSE Draws

(* The sizes a Game is constructed with: the default and one to each side  *)
(* of it.                                                                  *)
Sizes == {5, 6, 7}

-----------------------------------------------------------------------------
(* Python helpers *)

B2I(b) == IF b THEN 1 ELSE 0                              \* int * bool
InList(p, list) == \E i \in 1..Len(list) : list[i] = p    \* p in list, a sequence
In(p, list) == BagIn(p, list)                             \* p in list, a bag
(* append that puts the point in twice. *)
appendTwice(list, p) == (list (+) SetToBag({p})) (+) SetToBag({p})

append(list, p) == list (+) SetToBag({p})                 \* list.append(p), a bag

-----------------------------------------------------------------------------
(* class Point *)

Point(x, y) == [x |-> x, y |-> y]

(* class Ship *)

Ship(bow, length, direction) ==
    [bow |-> bow, length |-> length, direction |-> direction, lives |-> length]

(* points that runs along the other axis. *)
pointsAcross(ship) ==
    [i \in 1..ship.length |->
        Point(ship.bow.x + (i - 1) * B2I(ship.direction = 0),
              ship.bow.y + (i - 1) * B2I(ship.direction = 1))]

points(ship) ==
    [i \in 1..ship.length |->
        Point(ship.bow.x + (i - 1) * B2I(ship.direction = 1),
              ship.bow.y + (i - 1) * B2I(ship.direction = 0))]

hit(ship, shot) == InList(shot, points(ship))

-----------------------------------------------------------------------------
(* class Board *)

Board(sz, hidden) ==
    [size |-> sz,
     field |-> [x \in 0..(sz - 1) |-> [y \in 0..(sz - 1) |-> EMPTY]],
     busy |-> EmptyBag,
     ships |-> <<>>,
     shots |-> EmptyBag,
     hidden |-> hidden]

(* out without the lower bounds. *)
outAbove(b, p) == ~(p.x < b.size /\ p.y < b.size)

out(b, p) == ~(0 <= p.x /\ p.x < b.size /\ 0 <= p.y /\ p.y < b.size)

(* near without its four diagonal offsets. *)
nearNoDiagonal ==
    << <<-1, 0>>, <<0, -1>>, <<0, 0>>, <<0, 1>>, <<1, 0>> >>

near ==
    << <<-1, -1>>, <<-1, 0>>, <<-1, 1>>,
       <<0, -1>>, <<0, 0>>, <<0, 1>>,
       <<1, -1>>, <<1, 0>>, <<1, 1>> >>

(* The points cur that the two nested loops of Board.contour come to. *)
around(ship) ==
    {Point(points(ship)[i].x + near[j][1], points(ship)[i].y + near[j][2]) :
        i \in 1..Len(points(ship)), j \in 1..Len(near)}

(* Board.contour.  A cur that passes "not out and not in busy" is appended *)
(* to busy there and then, so the loops act on it at their first visit     *)
(* only: each such cur is marked (if verb) and appended once.              *)
contour(b, ship, verb) ==
    LET new == {cur \in around(ship) : ~out(b, cur) /\ ~In(cur, b.busy)}
    IN  [b EXCEPT
            !.field = [x \in 0..(b.size - 1) |->
                          [y \in 0..(b.size - 1) |->
                              IF verb /\ Point(x, y) \in new
                              THEN CONTOUR
                              ELSE b.field[x][y]]],
            !.busy = b.busy (+) SetToBag(new)]

(* fits without "or p in self.busy". *)
fitsInside(b, ship) ==
    \A i \in 1..Len(points(ship)) : ~out(b, points(ship)[i])

(* The first loop of Board.add_ship: no point raises. *)
fits(b, ship) ==
    \A i \in 1..Len(points(ship)) :
        ~(out(b, points(ship)[i]) \/ In(points(ship)[i], b.busy))

(* The second loop of Board.add_ship from its k-th iteration on. *)
RECURSIVE markFrom(_, _, _)
markFrom(b, ship, k) ==
    IF k > Len(points(ship))
    THEN b
    ELSE LET p == points(ship)[k]
         IN  markFrom([b EXCEPT !.field[p.x][p.y] = SHIP, !.busy = append(@, p)],
                      ship, k + 1)

(* add_ship that has put the bow into busy before it raises. *)
add_shipBowFirst(b, ship) ==
    IF ~fits(b, ship)
    THEN [board |-> [b EXCEPT !.busy = append(@, ship.bow)],
          raised |-> "BoardWrongShipException"]
    ELSE LET marked == markFrom(b, ship, 1)
             added == [marked EXCEPT !.ships = Append(@, ship)]
         IN  [board |-> contour(added, ship, FALSE), raised |-> "none"]

add_ship(b, ship) ==
    IF ~fits(b, ship)
    THEN [board |-> b, raised |-> "BoardWrongShipException"]
    ELSE LET marked == markFrom(b, ship, 1)
             added == [marked EXCEPT !.ships = Append(@, ship)]
         IN  [board |-> contour(added, ship, FALSE), raised |-> "none"]

(* The index in b.ships of the first ship that ship.hit(p), 0 when none. *)
firstHit(b, p) ==
    LET hits == {i \in 1..Len(b.ships) : hit(b.ships[i], p)}
    IN  IF hits = {} THEN 0 ELSE CHOOSE i \in hits : \A j \in hits : i <= j

(* used that never finds the point. *)
usedNever(b, p) == FALSE

used(b, p) == In(p, b.shots)                       \* shot: if p in self.shots

(* wound that takes every life at once. *)
woundDead(ship) == [ship EXCEPT !.lives = 0]

wound(ship) == [ship EXCEPT !.lives = @ - 1]        \* shot: ship.lives -= 1

(* destroyed that never sees the ship at 0. *)
destroyedNever(ship) == FALSE

destroyed(ship) == ship.lives = 0                   \* shot: if ship.lives == 0

(* The body of shot's loop for the ship b.ships[i] that p hits. *)
strike(b, i, p) ==
    LET b2 == [b EXCEPT !.ships[i] = wound(@), !.field[p.x][p.y] = HITMARK]
    IN  IF destroyed(b2.ships[i])
        THEN [board |-> contour(b2, b2.ships[i], TRUE),
              raised |-> "none", ret |-> TRUE, printed |-> "sunk"]
        ELSE [board |-> b2, raised |-> "none", ret |-> TRUE, printed |-> "hit"]

(* printed: "sunk", "hit" and "miss" are the three messages of shot. *)
shot(b, p) ==
    IF out(b, p)
    THEN [board |-> b, raised |-> "BoardOutException", ret |-> FALSE, printed |-> "none"]
    ELSE IF used(b, p)
    THEN [board |-> b, raised |-> "BoardUsedException", ret |-> FALSE, printed |-> "none"]
    ELSE LET b1 == [b EXCEPT !.shots = append(@, p)]
             i == firstHit(b1, p)
         IN  IF i = 0
             THEN [board |-> [b1 EXCEPT !.field[p.x][p.y] = MISSMARK],
                   raised |-> "none", ret |-> FALSE, printed |-> "miss"]
             ELSE strike(b1, i, p)

(* begin that leaves busy as it is. *)
beginKeep(b) == b

begin(b) == [b EXCEPT !.busy = EmptyBag]

(* defeat that never finds the board defeated. *)
defeatNever(b) == FALSE

(* defeat with any in place of all. *)
defeatAny(b) == \E i \in 1..Len(b.ships) : b.ships[i].lives = 0

defeat(b) == \A i \in 1..Len(b.ships) : b.ships[i].lives = 0

-----------------------------------------------------------------------------
(* class User, class AI: ask *)

(* User.ask on two tokens of digits a and b. *)
UserAsk(a, b) == Point(a - 1, b - 1)

(* AI.ask: the points it can return for the enemy board b. *)
AIAsk(b) ==
    {p \in {Point(x, y) : x \in 0..AIMax, y \in 0..AIMax} : ~In(p, b.shots)}

-----------------------------------------------------------------------------
(* The inputs explored *)

Cell(b, c) == Point(c \div b.size, c % b.size)

(* The first untargeted cell of b from cell c on, row by row, and the   *)
(* next one when that is among the first zone cells.                       *)
RECURSIVE FreshFrom(_, _, _, _)
FreshFrom(b, c, zone, n) ==
    IF c >= b.size * b.size \/ (n = 1 /\ c >= zone)
    THEN {}
    ELSE IF In(Cell(b, c), b.shots)
    THEN FreshFrom(b, c + 1, zone, n)
    ELSE IF n = 0
    THEN {Cell(b, c)} \cup FreshFrom(b, c + 1, zone, 1)
    ELSE {Cell(b, c)}

Fresh(b, zone) == FreshFrom(b, 0, zone, 0)

(* The first targeted cell of b from cell c on, stepping by d. *)
RECURSIVE AgainFrom(_, _, _)
AgainFrom(b, c, d) ==
    IF c < 0 \/ c >= b.size * b.size
    THEN {}
    ELSE IF In(Cell(b, c), b.shots)
    THEN {Cell(b, c)}
    ELSE AgainFrom(b, c + d, d)

(* Cells already shot that are tried again: the first and the last, row by row. *)
Again(b) == AgainFrom(b, 0, 1) \cup AgainFrom(b, b.size * b.size - 1, -1)

(* The token pairs the user types: 1-based fresh and repeated cells, and   *)
(* pairs with a component 0 or beyond the board.                           *)
UserTokens(b) ==
    {<<p.x + 1, p.y + 1>> : p \in Fresh(b, UserZone) \cup Again(b)}
        \cup {<<0, 0>>}
        \cup {<<b.size + k, 1>> : k \in 1..MaxOver}
        \cup {<<1, b.size + k>> : k \in 1..MaxOver}

(* The square AI.ask draws from, with the shots it tests its draws against. *)
AIView(b) == [size |-> AIMax + 1, shots |-> b.shots]

(* The draws of the computer explored: of the points AI.ask can return,    *)
(* the first in the rows of its square, or the second one while that is    *)
(* among the first AIZone of them.                                         *)
AIDraws(b) == {p \in AIAsk(b) : p \in Fresh(AIView(b), AIZone)}

-----------------------------------------------------------------------------
(* class Game *)

Init ==
    /\ size = Size
    /\ phase = "pl"
    /\ board = Board(size, FALSE)
    /\ attempts = 0
    /\ pl = None
    /\ co = None
    /\ num = 0
    /\ winner = "none"
    /\ last = [op |-> "none"]

(* One iteration of try_board's while loop that draws a ship. *)
TryShip(x, y, d) ==
    /\ phase \in {"pl", "co"}
    /\ Len(board.ships) < Len(lens)
    /\ attempts + 1 <= MaxAttempts
    /\ LET ship == Ship(Point(x, y), lens[Len(board.ships) + 1], d)
           r == add_ship(board, ship)
       IN  /\ board' = r.board
           /\ last' = [op |-> "add_ship", ship |-> ship, raised |-> r.raised]
    /\ attempts' = attempts + 1
    /\ UNCHANGED <<size, phase, pl, co, num, winner>>

(* Abandon that goes on with the board as it is. *)
AbandonKeep ==
    /\ phase \in {"pl", "co"}
    /\ Len(board.ships) < Len(lens)
    /\ attempts + 1 > MaxAttempts
    /\ board' = board
    /\ attempts' = 0
    /\ last' = [op |-> "try_board", ret |-> None]
    /\ UNCHANGED <<size, phase, pl, co, num, winner>>

(* The iteration of try_board's while loop that returns None, and         *)
(* random_board calling try_board again.                                   *)
Abandon ==
    /\ phase \in {"pl", "co"}
    /\ Len(board.ships) < Len(lens)
    /\ attempts + 1 > MaxAttempts
    /\ board' = Board(size, FALSE)
    /\ attempts' = 0
    /\ last' = [op |-> "try_board", ret |-> None]
    /\ UNCHANGED <<size, phase, pl, co, num, winner>>

(* The end of try_board (board.begin(), return board), random_board       *)
(* returning it and Game.__init__ going on.                                *)
Return ==
    /\ phase \in {"pl", "co"}
    /\ Len(board.ships) = Len(lens)
    /\ IF phase = "pl"
       THEN /\ pl' = begin(board)
            /\ co' = co
            /\ phase' = "co"
            /\ board' = Board(size, FALSE)
       ELSE /\ co' = [begin(board) EXCEPT !.hidden = TRUE]
            /\ pl' = pl
            /\ phase' = "play"
            /\ board' = None
    /\ attempts' = 0
    /\ last' = [op |-> "try_board", ret |-> begin(board)]
    /\ UNCHANGED <<size, num, winner>>

(* afterMove that never steps back. *)
afterMoveFlat(n, repeat) == n

(* Game.loop: if repeat: num -= 1 *)
afterMove(n, repeat) == IF repeat THEN n - 1 ELSE n

(* Game.loop after a move() that returned r.ret, on the boards the move   *)
(* left.                                                                   *)
LoopTail(repeat, newpl, newco) ==
    LET num1 == afterMove(num, repeat)
    IN  IF defeat(newco)
        THEN /\ winner' = "user"
             /\ phase' = "finished"
             /\ num' = num1
        ELSE IF defeat(newpl)
        THEN /\ winner' = "ai"
             /\ phase' = "finished"
             /\ num' = num1
        ELSE /\ winner' = winner
             /\ phase' = phase
             /\ num' = num1 + 1

(* One iteration of Player.move for player who ("us", "ai") with the       *)
(* target ask() returned; when the shot is not raised, the rest of the     *)
(* iteration of Game.loop.                                                 *)
Move(who, target) ==
    LET enemy == IF who = "us" THEN co ELSE pl
        r == shot(enemy, target)
    IN  /\ last' = [op |-> "move", who |-> who, target |-> target,
                    raised |-> r.raised, ret |-> r.ret, printed |-> r.printed]
        /\ IF r.raised # "none"
           THEN UNCHANGED <<pl, co, num, winner, phase>>
           ELSE /\ pl' = IF who = "us" THEN pl ELSE r.board
                /\ co' = IF who = "us" THEN r.board ELSE co
                /\ LoopTail(r.ret, pl', co')
        /\ UNCHANGED <<size, board, attempts>>

UserMove(a, b) ==
    /\ phase = "play"
    /\ num % 2 = 0
    /\ Move("us", UserAsk(a, b))

AIMove(p) ==
    /\ phase = "play"
    /\ num % 2 # 0
    /\ Move("ai", p)

Next ==
    \/ /\ phase \in {"pl", "co"}
       /\ Len(board.ships) < Len(lens)
       /\ \E t \in DrawsOf(size)[Len(board.ships) + 1] : TryShip(t[1], t[2], t[3])
    \/ Abandon
    \/ Return
    \/ /\ phase = "play"
       /\ \E t \in UserTokens(co) : UserMove(t[1], t[2])
    \/ /\ phase = "play"
       /\ \E p \in AIDraws(pl) : AIMove(p)

Spec == Init /\ [][Next]_vars

(* Game(size) for the sizes of Sizes. *)
InitSized ==
    /\ size \in Sizes
    /\ phase = "pl"
    /\ board = Board(size, FALSE)
    /\ attempts = 0
    /\ pl = None
    /\ co = None
    /\ num = 0
    /\ winner = "none"
    /\ last = [op |-> "none"]

SpecSized == InitSized /\ [][Next]_vars

(* The points Player.ask of side who can return that Board.shot does not   *)
(* raise on.                                                               *)
Open(who) ==
    IF who = "us"
    THEN {p \in {Point(x, y) : x \in 0..(co.size - 1), y \in 0..(co.size - 1)} :
             ~used(co, p)}
    ELSE {p \in AIAsk(pl) : ~out(pl, p)}

(* Player.move returns: the while loops of ask and of move have come to a  *)
(* point of Open and the shot at it was made.  Of the steps of Next these  *)
(* are the ones that leave such a record in last.                          *)
MoveReturns ==
    /\ phase = "play"
    /\ last' \in [op : {"move"}, who : {IF num % 2 = 0 THEN "us" ELSE "ai"},
                  target : Open(IF num % 2 = 0 THEN "us" ELSE "ai"),
                  raised : {"none"}, ret : BOOLEAN,
                  printed : {"miss", "hit", "sunk"}]

(* input and randint do not withhold the points of Open for ever. *)
FairSpec == Spec /\ WF_last(MoveReturns)

-----------------------------------------------------------------------------
(* A Ship on its own: constructed, then asked for its points or whether a  *)
(* shot hits it.                                                           *)
InitShip ==
    /\ size = Size
    /\ phase = "unit"
    /\ board = None
    /\ attempts = 0
    /\ pl = None
    /\ co = None
    /\ num = 0
    /\ winner = "none"
    /\ \E x \in (-1)..MaxBow, y \in (-1)..MaxBow, l \in 1..MaxLen, d \in {0, 1} :
           last = [op |-> "Ship", ship |-> Ship(Point(x, y), l, d)]

CallPoints ==
    /\ phase = "unit"
    /\ last' = [op |-> "points", ship |-> last.ship, ret |-> points(last.ship)]
    /\ UNCHANGED <<size, phase, board, attempts, pl, co, num, winner>>

CallHit(p) ==
    /\ phase = "unit"
    /\ last' = [op |-> "hit", ship |-> last.ship, shot |-> p,
                ret |-> hit(last.ship, p)]
    /\ UNCHANGED <<size, phase, board, attempts, pl, co, num, winner>>

NextShip ==
    \/ CallPoints
    \/ \E x \in (-2)..(MaxBow + MaxLen), y \in (-2)..(MaxBow + MaxLen) :
           CallHit(Point(x, y))

SpecShip == InitShip /\ [][NextShip]_vars

-----------------------------------------------------------------------------
(* What the properties below speak of, stated on coordinates alone. *)

(* p is a cell of ship: on the row of the bow for direction 0, on its      *)
(* column for direction 1, within length cells from the bow.               *)
Occupies(ship, p) ==
    IF ship.direction = 0
    THEN p.x = ship.bow.x /\ ship.bow.y <= p.y /\ p.y < ship.bow.y + ship.length
    ELSE p.y = ship.bow.y /\ ship.bow.x <= p.x /\ p.x < ship.bow.x + ship.length

Grid(n) == {Point(x, y) : x \in 0..(n - 1), y \in 0..(n - 1)}

(* The cells of ship: length of them from the bow on, along the row for    *)
(* direction 0 and along the column for direction 1.                       *)
CellsOf(ship) ==
    {Point(ship.bow.x + (IF ship.direction = 1 THEN k ELSE 0),
           ship.bow.y + (IF ship.direction = 0 THEN k ELSE 0)) :
        k \in 0..(ship.length - 1)}

FleetCells(b) == UNION {CellsOf(b.ships[i]) : i \in 1..Len(b.ships)}

Touch(p, q) ==
    /\ p.x - q.x \in {-1, 0, 1}
    /\ p.y - q.y \in {-1, 0, 1}

Inside(n, ship) == CellsOf(ship) \subseteq Grid(n)

(* No cell of ship v equals or touches a cell of ship w. *)
Apart(v, w) == \A p \in CellsOf(v) : \A q \in CellsOf(w) : ~Touch(p, q)

(* The boards random_board has returned so far. *)
Returned ==
    IF phase \in {"play", "finished"} THEN {pl, co}
    ELSE IF phase = "co" THEN {pl}
    ELSE {}

AllSunk(b) == \A i \in 1..Len(b.ships) : b.ships[i].lives = 0

InPlay == phase \in {"play", "finished"}

(* The side Game.loop lets move at turn number n. *)
Side(n) == IF n % 2 = 0 THEN "us" ELSE "ai"

(* A step of Player.move whose shot was not raised, by side who. *)
Shot(who) ==
    /\ phase = "play"
    /\ last'.op = "move"
    /\ last'.who = who
    /\ last'.raised = "none"

(* The points around a board of side n. *)
Around(n) == {Point(x, y) : x \in (-2)..(n + 1), y \in (-2)..(n + 1)}

-----------------------------------------------------------------------------
(* C1: every board random_board returns holds the seven vessels of lens,   *)
(* which cover eleven distinct cells of the board (3 + 2 + 2 + 1 + 1 + 1   *)
(* + 1), and no cell of one vessel equals or touches (diagonals included)  *)
(* a cell of another vessel.                                               *)
FleetApart(b) ==
    /\ Len(b.ships) = 7
    /\ \A i \in 1..Len(b.ships) :
           /\ b.ships[i].length = lens[i]
           /\ Inside(b.size, b.ships[i])
    /\ \A i, j \in 1..Len(b.ships) : i # j => Apart(b.ships[i], b.ships[j])

C1_FleetPlaced ==
    \A b \in Returned : FleetApart(b) /\ Cardinality(FleetCells(b)) = 11

(* C1 as the specification states it: the vessels cover ten cells. *)
C1_TenCells ==
    \A b \in Returned : FleetApart(b) /\ Cardinality(FleetCells(b)) = 10

(* Both boards are returned and they differ in a vessel. *)
C1_Witness ==
    /\ phase = "play"
    /\ Len(pl.ships) = 7
    /\ Len(co.ships) = 7
    /\ pl.ships # co.ships

-----------------------------------------------------------------------------
(* C8: while a board is being filled, add_ship(v) succeeds exactly when    *)
(* every cell of v is on the board and no cell of v equals or touches      *)
(* (diagonals included) a cell of a vessel placed before.  Stated for the  *)
(* ship a step draws, and for every ship of the lengths of lens with its   *)
(* bow on the board in the states where the board has just changed (a      *)
(* failed add_ship leaves the board as it was).                            *)
Placeable(b, v) ==
    /\ Inside(b.size, v)
    /\ \A i \in 1..Len(b.ships) : Apart(v, b.ships[i])

Candidates(n) ==
    {Ship(Point(x, y), l, d) : x \in 0..(n - 1), y \in 0..(n - 1),
                               l \in {lens[i] : i \in 1..Len(lens)}, d \in {0, 1}}

C8_State ==
    (phase \in {"pl", "co"} /\ attempts = Len(board.ships)) =>
        \A v \in Candidates(board.size) :
            (add_ship(board, v).raised = "none") <=> Placeable(board, v)

C8_Step ==
    (phase \in {"pl", "co"} /\ last'.op = "add_ship") =>
        /\ (last'.raised = "none") <=> Placeable(board, last'.ship)
        /\ (last'.raised # "none") <=> (last'.raised = "BoardWrongShipException")
        /\ (last'.raised = "none") <=> (board' # board)

C8_PlaceIff == []C8_State /\ [][C8_Step]_vars

(* An add_ship has failed for a ship that lies on the board and overlaps   *)
(* no vessel: it touches one, and only by a corner.                        *)
C8_Witness ==
    /\ phase \in {"pl", "co"}
    /\ last.op = "add_ship"
    /\ last.raised = "BoardWrongShipException"
    /\ Inside(board.size, last.ship)
    /\ \A i \in 1..Len(board.ships) :
           \A p \in CellsOf(last.ship) :
               \A q \in CellsOf(board.ships[i]) :
                   Touch(p, q) => (p.x # q.x /\ p.y # q.y)

-----------------------------------------------------------------------------
(* C2: a cell is shot at most once.  A point that is in shots stays there, *)
(* shots holds no point twice, a shot at a point of shots raises           *)
(* BoardUsedException and leaves the board (shots, field, lives) as it     *)
(* was, and a shot that is not raised puts its target into shots.          *)
C2_State ==
    InPlay =>
        \A b \in {pl, co} :
            \A p \in BagToSet(b.shots) :
                /\ CopiesIn(p, b.shots) = 1
                /\ shot(b, p).raised = "BoardUsedException"
                /\ shot(b, p).board = b

C2_Step ==
    phase = "play" =>
        /\ \A p \in BagToSet(pl.shots) : In(p, pl'.shots)
        /\ \A p \in BagToSet(co.shots) : In(p, co'.shots)
        /\ Shot("us") => (~In(last'.target, co.shots) /\ In(last'.target, co'.shots))
        /\ Shot("ai") => (~In(last'.target, pl.shots) /\ In(last'.target, pl'.shots))
        /\ (last'.op = "move" /\ last'.who = "us" /\ In(last'.target, co.shots)) =>
               (last'.raised = "BoardUsedException" /\ pl' = pl /\ co' = co)

C2_ShotOnce == []C2_State /\ [][C2_Step]_vars

(* The user has shot again at a cell of the computer's board, in vain. *)
C2_Witness ==
    /\ phase = "play"
    /\ last.op = "move"
    /\ last.raised = "BoardUsedException"
    /\ CopiesIn(last.target, co.shots) = 1

-----------------------------------------------------------------------------
(* C3: a shot at a point off the board, a negative component included,     *)
(* raises BoardOutException and leaves the board as it was.                *)
C3_State ==
    InPlay =>
        \A b \in {pl, co} :
            \A p \in Around(b.size) \ Grid(b.size) :
                /\ shot(b, p).raised = "BoardOutException"
                /\ shot(b, p).board = b

C3_Step ==
    (phase = "play" /\ last'.op = "move" /\ last'.target \notin Grid(size)) =>
        /\ last'.raised = "BoardOutException"
        /\ pl' = pl
        /\ co' = co

C3_OutOfBoard == []C3_State /\ [][C3_Step]_vars

(* The user has typed "0 0" and the shot at (-1, -1) was raised. *)
C3_Witness ==
    /\ phase = "play"
    /\ last.op = "move"
    /\ last.target = Point(-1, -1)
    /\ last.raised = "BoardOutException"
    /\ co.shots # EmptyBag

-----------------------------------------------------------------------------
(* C4: on a returned board every vessel has lives = length - the number of *)
(* its cells in shots, between 0 and length; a shot that is not raised     *)
(* takes one life from the vessel that holds its target and leaves every   *)
(* other vessel, and a raised shot every vessel, as it was.                *)
C4_State ==
    \A b \in Returned :
        \A i \in 1..Len(b.ships) :
            /\ b.ships[i].lives =
                   b.ships[i].length
                       - Cardinality({p \in CellsOf(b.ships[i]) : In(p, b.shots)})
            /\ 0 <= b.ships[i].lives
            /\ b.ships[i].lives <= b.ships[i].length

C4_Step ==
    phase = "play" =>
        \A i \in 1..Len(lens) :
            /\ co'.ships[i].lives =
                   co.ships[i].lives
                       - (IF Shot("us") /\ last'.target \in CellsOf(co.ships[i])
                          THEN 1 ELSE 0)
            /\ pl'.ships[i].lives =
                   pl.ships[i].lives
                       - (IF Shot("ai") /\ last'.target \in CellsOf(pl.ships[i])
                          THEN 1 ELSE 0)

C4_Lives == []C4_State /\ [][C4_Step]_vars

(* The computer's three-cell vessel has one life left and another of its   *)
(* vessels none.                                                           *)
C4_Witness ==
    /\ phase = "play"
    /\ \E i, j \in 1..Len(co.ships) :
           /\ co.ships[i].length = 3
           /\ co.ships[i].lives = 1
           /\ co.ships[j].lives = 0

-----------------------------------------------------------------------------
(* C5: the user makes the first move; after a move whose shot hit, if the  *)
(* game goes on, the same side moves next; after a move whose shot missed  *)
(* the other side moves next.                                              *)
C5_State ==
    phase = "play" =>
        /\ (pl.shots = EmptyBag /\ co.shots = EmptyBag) => Side(num) = "us"
        /\ pl.shots # EmptyBag => co.shots # EmptyBag

C5_Step ==
    \A who \in {"us", "ai"} :
        Shot(who) =>
            /\ Side(num) = who
            /\ (phase' = "play" /\ last'.ret) => Side(num') = who
            /\ ~last'.ret => (phase' = "play" /\ Side(num') # who)

C5_Turns == []C5_State /\ [][C5_Step]_vars

(* The computer has hit and is to move again. *)
C5_Witness ==
    /\ phase = "play"
    /\ last.op = "move"
    /\ last.who = "ai"
    /\ last.raised = "none"
    /\ last.ret
    /\ Side(num) = "ai"

-----------------------------------------------------------------------------
(* C6: the game is finished exactly when one board has every vessel at 0   *)
(* lives; the winner announced is the side whose shot came last, that shot *)
(* sank a vessel, the winner's own board is not defeated, the two boards   *)
(* are never both defeated, and nothing moves once a board is defeated.    *)
C6_State ==
    InPlay =>
        /\ (phase = "finished") <=> (AllSunk(pl) \/ AllSunk(co))
        /\ ~(AllSunk(pl) /\ AllSunk(co))
        /\ (phase = "play") <=> (winner = "none")
        /\ phase = "finished" =>
               /\ last.op = "move"
               /\ last.raised = "none"
               /\ last.printed = "sunk"
               /\ winner = (IF last.who = "us" THEN "user" ELSE "ai")
               /\ (winner = "user") <=> AllSunk(co)
               /\ (winner = "ai") <=> AllSunk(pl)

C6_Step == ~(phase = "finished") /\ (phase' = "finished" => Shot("us") \/ Shot("ai"))

C6_Finish == []C6_State /\ [][C6_Step]_vars

(* The computer has won. *)
C6_Witness ==
    /\ phase = "finished"
    /\ winner = "ai"
    /\ AllSunk(pl)

-----------------------------------------------------------------------------
(* C9: a shot at a cell of the board that is not in shots prints "miss"    *)
(* exactly when no vessel holds the cell, "sunk" exactly when the vessel   *)
(* that holds it has every other cell in shots, and "hit" exactly when     *)
(* that vessel has another cell not in shots; it returns True for "hit"    *)
(* and "sunk" only, and changes at most one vessel.                        *)
C9_State ==
    phase = "play" =>
        \A b \in {pl, co} :
            \A p \in {q \in Grid(b.size) : ~In(q, b.shots)} :
                LET r == shot(b, p)
                    owners == {i \in 1..Len(b.ships) : p \in CellsOf(b.ships[i])}
                    rest(i) == {q \in CellsOf(b.ships[i]) \ {p} : ~In(q, b.shots)}
                IN  /\ r.raised = "none"
                    /\ r.printed \in {"miss", "hit", "sunk"}
                    /\ (r.printed = "miss") <=> (owners = {})
                    /\ (r.printed = "sunk") <=> (\E i \in owners : rest(i) = {})
                    /\ (r.printed = "hit") <=> (\E i \in owners : rest(i) # {})
                    /\ r.ret <=> (r.printed \in {"hit", "sunk"})
                    /\ Cardinality({i \in 1..Len(b.ships) :
                                        r.board.ships[i] # b.ships[i]}) <= 1
                    /\ Len(r.board.ships) = Len(b.ships)

C9_Step ==
    \A who \in {"us", "ai"} :
        Shot(who) =>
            LET b == IF who = "us" THEN co ELSE pl
                r == shot(b, last'.target)
            IN  /\ last'.printed = r.printed
                /\ last'.ret = r.ret
                /\ (IF who = "us" THEN co' ELSE pl') = r.board

C9_Outcome == []C9_State /\ [][C9_Step]_vars

(* The user's shot has sunk the computer's three-cell vessel. *)
C9_Witness ==
    /\ InPlay
    /\ last.op = "move"
    /\ last.who = "us"
    /\ last.printed = "sunk"
    /\ \E i \in 1..Len(co.ships) :
           /\ co.ships[i].length = 3
           /\ last.target \in CellsOf(co.ships[i])

-----------------------------------------------------------------------------
(* C7: when every move ends with a shot at a cell of the board that is not *)
(* in shots, a game that is in Game.loop comes to its end; while the game  *)
(* goes on the side to move has such a cell, and a shot that was raised    *)
(* ends neither the move nor the game.                                     *)
C7_Rejected ==
    (phase = "play" /\ last'.op = "move" /\ last'.raised # "none") =>
        /\ phase' = "play"
        /\ num' = num
        /\ winner' = winner

C7_CanMove ==
    phase = "play" =>
        /\ Open(Side(num)) # {}
        /\ Side(num) = "us" => \E t \in UserTokens(co) : UserAsk(t[1], t[2]) \in Open("us")
        /\ Side(num) = "ai" => AIDraws(pl) \cap Open("ai") # {}

C7_Terminates ==
    /\ (phase = "play") ~> (phase = "finished")
    /\ []C7_CanMove
    /\ [][C7_Rejected]_vars

(* A game has come to its end, each side having shot at the other. *)
C7_Witness ==
    /\ phase = "finished"
    /\ pl.shots # EmptyBag
    /\ co.shots # EmptyBag

-----------------------------------------------------------------------------
(* C10: Ship.points is a list of length points, no two of them equal, the  *)
(* i-th (from 0) being the bow moved by i along y for direction 0 and      *)
(* along x for direction 1; Ship.hit(p) is True exactly for these points.  *)
C10_Cells ==
    phase = "unit" =>
        LET s == last.ship
        IN  /\ last.op = "points" =>
                   /\ Len(last.ret) = s.length
                   /\ \A i \in 1..s.length :
                          last.ret[i] = IF s.direction = 0
                                        THEN Point(s.bow.x, s.bow.y + (i - 1))
                                        ELSE Point(s.bow.x + (i - 1), s.bow.y)
                   /\ \A i, j \in 1..Len(last.ret) :
                          i # j => last.ret[i] # last.ret[j]
            /\ last.op = "hit" => (last.ret <=> Occupies(s, last.shot))

(* A vertical Ship of three cells was asked for its points. *)
C10_Witness ==
    /\ phase = "unit"
    /\ last.op = "points"
    /\ last.ship.length = 3
    /\ last.ship.direction = 1
    /\ Len(last.ret) = 3

-----------------------------------------------------------------------------
(* The boards there are: the one try_board is filling and the ones it has  *)
(* returned.                                                               *)
Boards == Returned \cup (IF phase \in {"pl", "co"} THEN {board} ELSE {})

Sunk(b) == {i \in 1..Len(b.ships) : b.ships[i].lives = 0}

-----------------------------------------------------------------------------
(* C11: during play every point of shots that is a cell of a vessel has    *)
(* the hit glyph on the field, the cells of a sunk vessel and the cell     *)
(* just shot included, and every point of shots that is a cell of no       *)
(* vessel has the miss glyph: the contour of a sunk vessel is drawn on     *)
(* empty cells only.                                                       *)
C11_MarksKept ==
    InPlay =>
        \A b \in {pl, co} :
            \A p \in BagToSet(b.shots) :
                b.field[p.x][p.y] = IF p \in FleetCells(b) THEN HITMARK ELSE MISSMARK

-----------------------------------------------------------------------------
(* C12: during play busy stays as Board.begin left it, whatever a shot     *)
(* comes to.                                                               *)
C12_BusyKept ==
    InPlay => \A b \in {pl, co} : b.busy = EmptyBag

-----------------------------------------------------------------------------
(* C13 as the specification states it: on every board there is, every cell *)
(* of every placed vessel is on the board and in busy.                     *)
C13_AlwaysBusy ==
    \A b \in Boards :
        \A p \in FleetCells(b) : p \in Grid(b.size) /\ In(p, b.busy)

(* C13: on every board there is, every cell of every placed vessel is on   *)
(* the board; it is in busy while try_board is filling the board; on a     *)
(* returned board, whose busy Board.begin has emptied, it is in busy       *)
(* exactly when its vessel has been sunk.                                  *)
C13_BusyWhilePlacing ==
    /\ \A b \in Boards : FleetCells(b) \subseteq Grid(b.size)
    /\ phase \in {"pl", "co"} => \A p \in FleetCells(board) : In(p, board.busy)
    /\ \A b \in Returned :
           \A i \in 1..Len(b.ships) :
               \A p \in CellsOf(b.ships[i]) : In(p, b.busy) <=> (i \in Sunk(b))

(* The user's board has been returned with its vessels and an empty busy,  *)
(* and the computer's board is being filled.                               *)
C13_Witness ==
    /\ phase = "co"
    /\ Len(pl.ships) = Len(lens)
    /\ pl.busy = EmptyBag
    /\ Len(board.ships) > 0
    /\ \A p \in FleetCells(board) : In(p, board.busy)

-----------------------------------------------------------------------------
(* C14: add_ship does all or nothing.  When it raises, the last point of   *)
(* the vessel being the one at fault included, the board is what it was;   *)
(* when it does not, ships has the vessel appended and nothing else, the   *)
(* field has the ship glyph on the vessel's cells and is otherwise what it *)
(* was, and busy has gained the vessel's cells and the cells of the board  *)
(* that touch them.                                                        *)
Placed(b, v, b2) ==
    /\ b2.ships = Append(b.ships, v)
    /\ \A p \in Grid(b.size) :
           b2.field[p.x][p.y] = IF p \in CellsOf(v) THEN SHIP ELSE b.field[p.x][p.y]
    /\ BagToSet(b2.busy) =
           BagToSet(b.busy)
               \cup {q \in Grid(b.size) : \E p \in CellsOf(v) : Touch(p, q)}
    /\ b2.shots = b.shots
    /\ b2.size = b.size
    /\ b2.hidden = b.hidden

C14_State ==
    (phase \in {"pl", "co"} /\ attempts = Len(board.ships)) =>
        \A v \in Candidates(board.size) :
            LET r == add_ship(board, v)
            IN  IF r.raised # "none"
                THEN r.board = board
                ELSE Placed(board, v, r.board)

C14_Step ==
    (phase \in {"pl", "co"} /\ last'.op = "add_ship") =>
        IF last'.raised # "none"
        THEN board' = board
        ELSE Placed(board, last'.ship, board')

C14_AllOrNothing == []C14_State /\ [][C14_Step]_vars

(* add_ship has raised on a vessel whose bow was free and on the board and *)
(* whose last cell was not.                                                *)
C14_Witness ==
    /\ phase \in {"pl", "co"}
    /\ last.op = "add_ship"
    /\ last.raised = "BoardWrongShipException"
    /\ last.ship.length > 1
    /\ ~out(board, last.ship.bow)
    /\ ~In(last.ship.bow, board.busy)
    /\ LET end == points(last.ship)[last.ship.length]
       IN  out(board, end) \/ In(end, board.busy)
    /\ Len(board.ships) > 0

-----------------------------------------------------------------------------
(* C15: a move that returns has put exactly one point, its target, into    *)
(* the shots of the enemy's board and has left the mover's own board as it *)
(* was; a shot that was raised, as BoardOutException or                    *)
(* BoardUsedException, has changed neither board nor num, and the same     *)
(* side is still to move.                                                  *)
C15_Returned ==
    \A who \in {"us", "ai"} :
        Shot(who) =>
            LET enemy == IF who = "us" THEN co ELSE pl
                enemy2 == IF who = "us" THEN co' ELSE pl'
                own == IF who = "us" THEN pl ELSE co
                own2 == IF who = "us" THEN pl' ELSE co'
            IN  /\ enemy2.shots = enemy.shots (+) SetToBag({last'.target})
                /\ BagCardinality(enemy2.shots) = BagCardinality(enemy.shots) + 1
                /\ own2 = own

C15_Raised ==
    (phase = "play" /\ last'.op = "move" /\ last'.raised # "none") =>
        /\ last'.raised \in {"BoardOutException", "BoardUsedException"}
        /\ last'.who = Side(num)
        /\ pl' = pl
        /\ co' = co
        /\ num' = num
        /\ phase' = "play"

C15_OneShotPerTurn == [][C15_Returned /\ C15_Raised]_vars

(* A move of the computer has returned, its target being the newest of at  *)
(* least two points in the shots of the user's board.                      *)
C15_Witness ==
    /\ InPlay
    /\ last.op = "move"
    /\ last.who = "ai"
    /\ last.raised = "none"
    /\ CopiesIn(last.target, pl.shots) = 1
    /\ BagCardinality(pl.shots) >= 2
    /\ co.shots # EmptyBag

-----------------------------------------------------------------------------
(* C16: one call of try_board makes at most MaxAttempts calls of add_ship, *)
(* over all the vessels; when the fleet is not complete by then the board  *)
(* is dropped and the next call starts on an empty board with attempts at  *)
(* 0; a board is returned only with all the vessels of lens on it and      *)
(* after Board.begin.                                                      *)
C16_State ==
    /\ phase \in {"pl", "co"} =>
           /\ attempts <= MaxAttempts
           /\ Len(board.ships) <= attempts
           /\ Len(board.ships) <= Len(lens)
    /\ \A b \in Returned : Len(b.ships) = Len(lens)

C16_Step ==
    phase \in {"pl", "co"} =>
        /\ last'.op = "add_ship" =>
               /\ attempts' = attempts + 1
               /\ attempts' <= MaxAttempts
        /\ (last'.op = "try_board" /\ last'.ret = None) =>
               /\ attempts = MaxAttempts
               /\ Len(board.ships) < Len(lens)
               /\ board' = Board(size, FALSE)
               /\ attempts' = 0
               /\ phase' = phase
               /\ pl' = pl
               /\ co' = co
        /\ (last'.op = "try_board" /\ last'.ret # None) =>
               /\ Len(board.ships) = Len(lens)
               /\ last'.ret = begin(board)
               /\ LET b2 == IF phase = "pl" THEN pl' ELSE co'
                  IN  /\ b2.busy = EmptyBag
                      /\ b2.ships = board.ships
                      /\ b2.field = board.field

C16_BoundedRetry == []C16_State /\ [][C16_Step]_vars

(* try_board has returned None on the computer's board and the next call   *)
(* has an empty board.                                                     *)
C16_Witness ==
    /\ phase = "co"
    /\ last.op = "try_board"
    /\ last.ret = None
    /\ attempts = 0
    /\ board = Board(size, FALSE)
    /\ Len(pl.ships) = Len(lens)

-----------------------------------------------------------------------------
(* C17: whatever size the Game was constructed with, every point AI.ask    *)
(* can return is on the enemy's board and not in its shots, and no shot of *)
(* the computer is raised.                                                 *)
C17_AIInside ==
    /\ phase = "play" =>
           \A p \in AIAsk(pl) : p \in Grid(size) /\ ~used(pl, p)
    /\ (InPlay /\ last.op = "move" /\ last.who = "ai") =>
           /\ last.target \in Grid(size)
           /\ last.raised = "none"

-----------------------------------------------------------------------------
(* C18: whatever size the Game was constructed with, whenever the computer *)
(* is to move in Game.loop, some point of the square AI.ask draws from is  *)
(* not in the shots of the enemy's board.                                  *)
C18_AICanDraw ==
    (phase = "play" /\ Side(num) = "ai") => AIAsk(pl) # {}

====
